---- MODULE Spec2Model ----
(***************************************************************************)
(* Model of the knowledge base and inference engine of MinesweeperAI       *)
(* (src/minesweeper.py): Sentence, MinesweeperAI.mark_mine / mark_safe,    *)
(* add_knowledge, make_safe_move and make_random_move.                     *)
(*                                                                         *)
(* add_knowledge is modelled in steps.  AddKnowledge covers lines 197-234  *)
(* (bookkeeping, the new sentence, the direct extraction pass) and enters  *)
(* the `while True` loop; Infer is one append of the subset loop (the scan *)
(* from the current pair to the next pair that appends is deterministic    *)
(* and changes nothing, so it is folded into the step); NextPass is the    *)
(* end of a pass that appended something; Return is the `break`.           *)
(***************************************************************************)
EXTENDS Integers, Sequences, FiniteSets, TLC

\* ---------------------------------------------------------------- bounds
MaxHeight == 2
MaxWidth == 3
MaxCount == 2
MaxObs == 3
MaxUncheckedObs == 2
MaxKnowledge == 10
MaxMines == 2
MaxBoardObs == 4

VARIABLES
    height, width,        \* MinesweeperAI.height / width
    moves_made,           \* MinesweeperAI.moves_made
    mines,                \* MinesweeperAI.mines
    safes,                \* MinesweeperAI.safes
    knowledge,            \* MinesweeperAI.knowledge, a list of sentences
    pc,                   \* "idle": no call running; "scan": inside the while loop
    i, j,                 \* position of the two for loops of the subset scan
    new_inference_made,   \* the flag of the while loop
    derived,              \* number of sentences the loop appended in this call
    calls,                \* number of add_knowledge calls so far
    last,                 \* the last public call: its arguments and its result
    board                 \* Minesweeper.mines, the cells of the board that hold a mine

vars == <<height, width, moves_made, mines, safes, knowledge, pc, i, j,
          new_inference_made, derived, calls, last, board>>

kbvars == <<moves_made, mines, safes, knowledge>>

None == <<>>

\* ---------------------------------------------------------------- cells
Cells == (0 .. height - 1) \X (0 .. width - 1)

\* cells up to one step outside the grid, for calls that break the precondition
AnyCells == (-1 .. height) \X (-1 .. width)

InBounds(c) == 0 <= c[1] /\ c[1] < height /\ 0 <= c[2] /\ c[2] < width

\* range(cell[0]-1, cell[0]+2) x range(cell[1]-1, cell[1]+2) without cell
Block(cell) ==
    ((cell[1] - 1 .. cell[1] + 1) \X (cell[2] - 1 .. cell[2] + 1)) \ {cell}

\* ---------------------------------------------------------------- Sentence
Sentence(cells, count) == [cells |-> cells, count |-> count]

Sentence_eq(s, o) == s.cells = o.cells /\ s.count = o.count

\* known_mines with the count test written `> 1`
known_mines_OffByOne(s) ==
    IF Cardinality(s.cells) = s.count /\ s.count > 1 THEN s.cells ELSE {}

known_mines(s) ==
    IF Cardinality(s.cells) = s.count /\ s.count > 0 THEN s.cells ELSE {}

\* known_safes that also accepts a count of one
known_safes_UnderTwo(s) == IF s.count <= 1 THEN s.cells ELSE {}

known_safes(s) == IF s.count = 0 THEN s.cells ELSE {}

\* mark_mine without the membership test
Sentence_mark_mine_Unguarded(s, cell) ==
    [cells |-> s.cells \ {cell}, count |-> s.count - 1]

Sentence_mark_mine(s, cell) ==
    IF cell \in s.cells
    THEN [cells |-> s.cells \ {cell}, count |-> s.count - 1]
    ELSE s

Sentence_mark_safe(s, cell) ==
    IF cell \in s.cells
    THEN [cells |-> s.cells \ {cell}, count |-> s.count]
    ELSE s

\* ---------------------------------------------------------------- knowledge base
\* kb is the record [mines, safes, knowledge] of the three fields the
\* propagation methods touch.
KB == [mines |-> mines, safes |-> safes, knowledge |-> knowledge]

mark_mine(kb, cell) ==
    [mines |-> kb.mines \cup {cell},
     safes |-> kb.safes,
     knowledge |-> [k \in DOMAIN kb.knowledge |->
                        Sentence_mark_mine(kb.knowledge[k], cell)]]

\* mark_safe that records the cell and leaves the sentences as they are
mark_safe_NoPropagation(kb, cell) ==
    [mines |-> kb.mines,
     safes |-> kb.safes \cup {cell},
     knowledge |-> kb.knowledge]

mark_safe(kb, cell) ==
    [mines |-> kb.mines,
     safes |-> kb.safes \cup {cell},
     knowledge |-> [k \in DOMAIN kb.knowledge |->
                        Sentence_mark_safe(kb.knowledge[k], cell)]]

\* for cell in sentence.known_safes().copy(): self.mark_safe(cell)
RECURSIVE MarkSafeEach(_, _)
MarkSafeEach(kb, S) ==
    IF S = {} THEN kb
    ELSE LET c == CHOOSE x \in S : TRUE
         IN  MarkSafeEach(mark_safe(kb, c), S \ {c})

\* for cell in sentence.known_mines().copy(): self.mark_mine(cell)
RECURSIVE MarkMineEach(_, _)
MarkMineEach(kb, S) ==
    IF S = {} THEN kb
    ELSE LET c == CHOOSE x \in S : TRUE
         IN  MarkMineEach(mark_mine(kb, c), S \ {c})

\* body of the direct extraction loop for the sentence at index k
ExtractOne(kb, k) ==
    LET s   == kb.knowledge[k]
        kb1 == IF known_safes(s) # {} THEN MarkSafeEach(kb, known_safes(s)) ELSE kb
        s1  == kb1.knowledge[k]
    IN  IF known_mines(s1) # {} THEN MarkMineEach(kb1, known_mines(s1)) ELSE kb1

\* for sentence in self.knowledge: ... (one pass, in list order)
RECURSIVE Extract(_, _)
Extract(kb, k) ==
    IF k > Len(kb.knowledge) THEN kb ELSE Extract(ExtractOne(kb, k), k + 1)

\* the neighbourhood scan without the test for known safe cells
NewSentence_KeepsSafes(kb, moves, cell, count) ==
    LET hit == {n \in Block(cell) : n \in kb.mines}
        und == {n \in Block(cell) :
                    /\ n \notin kb.mines
                    /\ InBounds(n)
                    /\ n \notin moves}
    IN  Sentence(und, count - Cardinality(hit))

\* the neighbourhood scan that does not lower the count for known mines
NewSentence_NoDecrement(kb, moves, cell, count) ==
    LET und == {n \in Block(cell) :
                    /\ n \notin kb.mines
                    /\ InBounds(n)
                    /\ n \notin kb.safes
                    /\ n \notin moves}
    IN  Sentence(und, count)

\* the sentence add_knowledge builds from the neighbourhood of cell
NewSentence(kb, moves, cell, count) ==
    LET hit == {n \in Block(cell) : n \in kb.mines}
        und == {n \in Block(cell) :
                    /\ n \notin kb.mines
                    /\ InBounds(n)
                    /\ n \notin kb.safes
                    /\ n \notin moves}
    IN  Sentence(und, count - Cardinality(hit))

\* add_knowledge running the extraction pass before it appends the sentence
Observed_ExtractFirst(kb, moves, cell, count) ==
    LET kb1 == Extract(mark_safe(kb, cell), 1)
    IN  [kb1 EXCEPT !.knowledge =
             Append(@, NewSentence(kb1, moves \cup {cell}, cell, count))]

\* add_knowledge dropping the sentences the extraction pass emptied
Observed_Pruned(kb, moves, cell, count) ==
    LET kb1 == mark_safe(kb, cell)
        kb2 == [kb1 EXCEPT !.knowledge =
                    Append(@, NewSentence(kb1, moves \cup {cell}, cell, count))]
        kb3 == Extract(kb2, 1)
    IN  [kb3 EXCEPT !.knowledge = SelectSeq(@, LAMBDA s : s.cells # {})]

\* lines 197-234 of add_knowledge on the knowledge base
Observed(kb, moves, cell, count) ==
    LET kb1 == mark_safe(kb, cell)
        kb2 == [kb1 EXCEPT !.knowledge =
                    Append(@, NewSentence(kb1, moves \cup {cell}, cell, count))]
    IN  Extract(kb2, 1)

\* ---------------------------------------------------------------- subset loop
\* membership that compares the cells only
InKnowledge_CellsOnly(s, kn) == \E k \in DOMAIN kn : kn[k].cells = s.cells

InKnowledge(s, kn) == \E k \in DOMAIN kn : Sentence_eq(kn[k], s)

\* the inference with the two counts subtracted the wrong way round
new_inference_Swapped(kn, a, b) ==
    Sentence(kn[a].cells \ kn[b].cells, kn[b].count - kn[a].count)

new_inference(kn, a, b) ==
    Sentence(kn[a].cells \ kn[b].cells, kn[a].count - kn[b].count)

\* the loop body with the possible subsets limited to sentences stored earlier
Eligible_EarlierOnly(kn, a, b) ==
    /\ b < a
    /\ kn[b].cells \subseteq kn[a].cells
    /\ kn[a].count # 0
    /\ kn[b].count # 0
    /\ ~Sentence_eq(kn[a], kn[b])

\* the two `if` conditions of the loop body for sentence a, possible_subset b
Eligible(kn, a, b) ==
    /\ kn[b].cells \subseteq kn[a].cells
    /\ kn[a].count # 0
    /\ kn[b].count # 0
    /\ ~Sentence_eq(kn[a], kn[b])

\* pairs at or after position (a0, b0) of the pass whose inference is new
Pending(kn, a0, b0) ==
    {p \in (1 .. Len(kn)) \X (1 .. Len(kn)) :
        /\ p[1] > a0 \/ (p[1] = a0 /\ p[2] >= b0)
        /\ Eligible(kn, p[1], p[2])
        /\ ~InKnowledge(new_inference(kn, p[1], p[2]), kn)}

\* the first of them in iteration order
FirstPair(P) ==
    CHOOSE p \in P : \A q \in P : p[1] < q[1] \/ (p[1] = q[1] /\ p[2] <= q[2])

\* ---------------------------------------------------------------- move selection
\* make_safe_move without the test for moves already made
safe_moves_AnySafe(sf, moves) ==
    IF sf = {} THEN {None} ELSE sf

\* the values make_safe_move can return (iteration order of a set is arbitrary)
safe_moves(sf, moves) ==
    IF sf \ moves = {} THEN {None} ELSE sf \ moves

\* make_random_move without the test for known mines
random_moves_IgnoresMines(moves, mn) ==
    LET possible_moves == {c \in Cells : c \notin moves}
    IN  IF possible_moves = {} THEN {None} ELSE possible_moves

\* the values make_random_move can return
random_moves(moves, mn) ==
    LET possible_moves == {c \in Cells : c \notin moves /\ c \notin mn}
    IN  IF possible_moves = {} THEN {None} ELSE possible_moves

\* ---------------------------------------------------------------- board
is_mine(cell) == cell \in board

\* a count one above the number of neighbouring mines
nearby_mines_OneMore(cell) ==
    Cardinality({n \in Block(cell) : InBounds(n) /\ n \in board}) + 1

\* number of mines within one row and column of cell, cell excluded
nearby_mines(cell) ==
    Cardinality({n \in Block(cell) : InBounds(n) /\ n \in board})

DistinctPairs(kn) == {kn[k] : k \in DOMAIN kn}

\* ---------------------------------------------------------------- actions
\* MinesweeperAI(height, width)
InitAI ==
    /\ moves_made = {}
    /\ mines = {}
    /\ safes = {}
    /\ knowledge = <<>>
    /\ pc = "idle"
    /\ i = 0
    /\ j = 0
    /\ new_inference_made = FALSE
    /\ derived = 0
    /\ calls = 0
    /\ last = [op |-> "init", cell |-> None, count |-> 0, result |-> None,
               before |-> 0]

\* no board: the calls are made with arbitrary arguments
Init ==
    /\ height \in 1 .. MaxHeight
    /\ width \in 1 .. MaxWidth
    /\ board = {}
    /\ InitAI

\* a board of the same size with at most MaxMines mines
InitBoard ==
    /\ height \in 1 .. MaxHeight
    /\ width \in 1 .. MaxWidth
    /\ board \in {b \in SUBSET Cells : Cardinality(b) <= MaxMines}
    /\ InitAI

AddKnowledge(cell, count) ==
    /\ pc = "idle"
    /\ LET kb == Observed(KB, moves_made, cell, count)
       IN  /\ moves_made' = moves_made \cup {cell}
           /\ mines' = kb.mines
           /\ safes' = kb.safes
           /\ knowledge' = kb.knowledge
    /\ pc' = "scan"
    /\ i' = 1
    /\ j' = 1
    /\ new_inference_made' = FALSE
    /\ derived' = 0
    /\ calls' = calls + 1
    /\ last' = [op |-> "add_knowledge", cell |-> cell, count |-> count,
                result |-> None,
                before |-> Cardinality(DistinctPairs(knowledge))]
    /\ UNCHANGED <<height, width, board>>

\* c = m * d for some m >= 1
PosMultiple(c, d) ==
    IF d > 0 THEN c > 0 /\ c % d = 0
    ELSE d < 0 /\ c < 0 /\ (0 - c) % (0 - d) = 0

\* A stored sentence E = ({}, d) with d # 0 and a stored sentence S = (X, c)
\* with c # 0 and c not a positive multiple of d: the loop must then store
\* (X, c - d), (X, c - 2d), ... without end, since none of them has count 0 or
\* equals E, so each is again a pair with E whose inference is new. The loop
\* of such a call never returns; the model follows it up to MaxKnowledge
\* sentences and no further. Every other call is followed to its end.
Runaway(kn) ==
    \E e, s \in DOMAIN kn :
        /\ kn[e].cells = {}
        /\ kn[e].count # 0
        /\ kn[s].count # 0
        /\ ~PosMultiple(kn[s].count, kn[e].count)

Infer ==
    /\ pc = "scan"
    /\ Pending(knowledge, i, j) # {}
    /\ ~(Len(knowledge) >= MaxKnowledge /\ Runaway(knowledge))
    /\ LET p == FirstPair(Pending(knowledge, i, j))
       IN  /\ knowledge' = Append(knowledge, new_inference(knowledge, p[1], p[2]))
           /\ i' = p[1]
           /\ j' = p[2] + 1
    /\ new_inference_made' = TRUE
    /\ derived' = derived + 1
    /\ UNCHANGED <<height, width, board, moves_made, mines, safes, pc, calls, last>>

NextPass ==
    /\ pc = "scan"
    /\ Pending(knowledge, i, j) = {}
    /\ new_inference_made
    /\ i' = 1
    /\ j' = 1
    /\ new_inference_made' = FALSE
    /\ UNCHANGED <<height, width, board, moves_made, mines, safes, knowledge, pc,
                   derived, calls, last>>

Return ==
    /\ pc = "scan"
    /\ Pending(knowledge, i, j) = {}
    /\ ~new_inference_made
    /\ pc' = "idle"
    /\ i' = 0
    /\ j' = 0
    /\ UNCHANGED <<height, width, board, moves_made, mines, safes, knowledge,
                   new_inference_made, derived, calls, last>>

MakeSafeMove ==
    /\ pc = "idle"
    /\ \E r \in safe_moves(safes, moves_made) :
           last' = [op |-> "make_safe_move", cell |-> None, count |-> 0,
                    result |-> r, before |-> 0]
    /\ UNCHANGED <<height, width, board, moves_made, mines, safes, knowledge, pc, i, j,
                   new_inference_made, derived, calls>>

MakeRandomMove ==
    /\ pc = "idle"
    /\ \E r \in random_moves(moves_made, mines) :
           last' = [op |-> "make_random_move", cell |-> None, count |-> 0,
                    result |-> r, before |-> 0]
    /\ UNCHANGED <<height, width, board, moves_made, mines, safes, knowledge, pc, i, j,
                   new_inference_made, derived, calls>>

\* The subset loop with its pairs taken in another order: any pair whose
\* inference is new may be the next one to append.  A call that has left the
\* order of the two for loops stops in "stopped" and is not continued.
InferAnyOrder ==
    /\ pc \in {"scan", "anyorder"}
    /\ ~(Len(knowledge) >= MaxKnowledge /\ Runaway(knowledge))
    /\ \E p \in Pending(knowledge, 1, 1) :
           knowledge' = Append(knowledge, new_inference(knowledge, p[1], p[2]))
    /\ pc' = "anyorder"
    /\ i' = 0
    /\ j' = 0
    /\ new_inference_made' = TRUE
    /\ derived' = derived + 1
    /\ UNCHANGED <<height, width, board, moves_made, mines, safes, calls, last>>

StopAnyOrder ==
    /\ pc = "anyorder"
    /\ Pending(knowledge, 1, 1) = {}
    /\ pc' = "stopped"
    /\ UNCHANGED <<height, width, board, moves_made, mines, safes, knowledge,
                   i, j, new_inference_made, derived, calls, last>>

\* add_knowledge with an in-bounds cell and a non-negative count
Observe ==
    /\ calls < MaxObs
    /\ \E cell \in Cells, count \in 0 .. MaxCount : AddKnowledge(cell, count)

\* add_knowledge with any arguments, also outside the precondition
ObserveAny ==
    /\ calls < MaxUncheckedObs
    /\ \E cell \in AnyCells, count \in -1 .. MaxCount : AddKnowledge(cell, count)

\* add_knowledge as the game loop calls it: a cell that is no mine of the
\* board, with the board's count for it; a cell may be observed again
ObserveBoard ==
    /\ calls < MaxBoardObs
    /\ \E cell \in Cells :
           /\ ~is_mine(cell)
           /\ AddKnowledge(cell, nearby_mines(cell))

Next ==
    \/ Observe
    \/ Infer
    \/ NextPass
    \/ Return
    \/ MakeSafeMove
    \/ MakeRandomMove

Spec == Init /\ [][Next]_vars

\* the loop of a running call keeps stepping: the program is single-threaded
\* and nothing preempts it
FairSpec ==
    Spec /\ WF_vars(Infer) /\ WF_vars(NextPass) /\ WF_vars(Return)

NextUnchecked ==
    \/ ObserveAny
    \/ Infer
    \/ NextPass
    \/ Return
    \/ MakeSafeMove
    \/ MakeRandomMove

SpecUnchecked == Init /\ [][NextUnchecked]_vars

NextBoard ==
    \/ ObserveBoard
    \/ Infer
    \/ NextPass
    \/ Return
    \/ MakeSafeMove
    \/ MakeRandomMove

SpecBoard == InitBoard /\ [][NextBoard]_vars

FairSpecBoard ==
    SpecBoard /\ WF_vars(Infer) /\ WF_vars(NextPass) /\ WF_vars(Return)

\* the 3 x 3 board whose only mine is (0, 0)
InitCorner ==
    /\ height = 3
    /\ width = 3
    /\ board = {<<0, 0>>}
    /\ InitAI

SpecCorner == InitCorner /\ [][NextBoard]_vars

NextOrder ==
    \/ NextBoard
    \/ InferAnyOrder
    \/ StopAnyOrder

SpecOrder == InitBoard /\ [][NextOrder]_vars

TypeOK ==
    /\ moves_made \subseteq AnyCells
    /\ mines \subseteq Cells
    /\ pc \in {"idle", "scan", "anyorder", "stopped"}
    /\ Len(knowledge) > MaxKnowledge => ~Runaway(knowledge)

\* ---------------------------------------------------------------- properties
IsObserveStep == pc = "idle" /\ pc' = "scan"

Trivial(s) == s.count = 0 \/ (Cardinality(s.cells) = s.count /\ s.count > 0)

Resolved(s) ==
    /\ s.count = 0 => s.cells \subseteq safes
    /\ (Cardinality(s.cells) = s.count /\ s.count > 0) => s.cells \subseteq mines

\* the sentences the subset loop appended in the current (or last) call
DerivedIndices == (Len(knowledge) - derived + 1) .. Len(knowledge)

\* At these bounds a call whose list reaches MaxKnowledge with an inference
\* still to append is always a runaway call: no call that returns stores that
\* many sentences.
CutOnlyWhenRunaway ==
    (pc = "scan" /\ Len(knowledge) = MaxKnowledge /\ Pending(knowledge, i, j) # {})
        => Runaway(knowledge)

\* C1: every add_knowledge call with an in-bounds cell and a non-negative
\* count returns: once the subset loop is entered, it reaches a pass that
\* appends nothing and the call is over.
C1_EveryCallReturns == (pc = "scan") ~> (pc = "idle")

\* C2 (as stated): knownMines and knownSafe are disjoint in every reachable
\* state.
C2_AlwaysDisjoint == mines \cap safes = {}

\* C2 (amended): a cell enters both knownMines and knownSafe only by being
\* the cell of an add_knowledge call made while it is already in knownMines;
\* no other step of the program makes the two sets overlap.
C2_OverlapOnlyByObservedMine ==
    [][(mines' \cap safes') \ (mines \cap safes) \subseteq
           (IF IsObserveStep /\ last'.cell \in mines THEN {last'.cell} ELSE {})]_vars

C2_Witness ==
    /\ pc = "idle"
    /\ calls >= 2
    /\ mines # {}
    /\ safes \ moves_made # {}
    /\ mines \cap safes = {}

\* C3: when the call has returned, every sentence with count 0 that the
\* subset loop derived in that call has all its cells in knownSafe.
C3_DerivedZeroResolved ==
    pc = "idle" =>
        \A k \in DerivedIndices :
            knowledge[k].count = 0 => knowledge[k].cells \subseteq safes

\* C4: at the end of the direct extraction pass, before the subset loop has
\* appended anything, every stored sentence with count 0 has its cells in
\* knownSafe and every stored sentence with count = |cells| > 0 has its cells
\* in knownMines.
C4_ExtractionComplete ==
    (pc = "scan" /\ derived = 0) =>
        \A k \in DOMAIN knowledge : Resolved(knowledge[k])

\* C5: when add_knowledge has returned, for every two stored sentences A, B
\* that differ by value with B.cells a subset of A.cells and both counts
\* non-zero, the sentence (A.cells - B.cells, A.count - B.count) is stored.
C5_ClosedAtReturn ==
    pc = "idle" =>
        \A a, b \in DOMAIN knowledge :
            LET A == knowledge[a]
                B == knowledge[b]
            IN  (/\ A # B
                 /\ B.cells \subseteq A.cells
                 /\ A.count # 0
                 /\ B.count # 0)
                => \E k \in DOMAIN knowledge :
                       /\ knowledge[k].cells = A.cells \ B.cells
                       /\ knowledge[k].count = A.count - B.count

C5_Witness ==
    /\ pc = "idle"
    /\ derived > 0
    /\ \E a, b \in DOMAIN knowledge :
           /\ knowledge[a] # knowledge[b]
           /\ knowledge[b].cells \subseteq knowledge[a].cells
           /\ knowledge[b].cells # {}
           /\ knowledge[a].count # 0
           /\ knowledge[b].count # 0

\* C6: add_knowledge called with a cell outside the grid or with a negative
\* count fails: the call is over at once and movesMade, knownSafe, knownMines
\* and the stored sentences are unchanged.
C6_BadCallRejected ==
    [][(pc = "idle" /\ calls' = calls + 1
            /\ (~InBounds(last'.cell) \/ last'.count < 0))
       => (pc' = "idle" /\ UNCHANGED kbvars)]_vars

\* C7: make_safe_move returns a cell of knownSafe that is not in movesMade,
\* returns None exactly when knownSafe minus movesMade is empty, and changes
\* none of movesMade, knownSafe, knownMines and the stored sentences.
C7_SafeMove ==
    [][(pc = "idle" /\ last'.op = "make_safe_move")
       => /\ last'.result # None =>
                 (last'.result \in safes /\ last'.result \notin moves_made)
          /\ last'.result = None <=> safes \ moves_made = {}
          /\ UNCHANGED kbvars]_vars

C7_Witness ==
    /\ last.op = "make_safe_move"
    /\ last.result # None
    /\ moves_made # {}
    /\ last.result \in safes \ moves_made

\* C8: make_random_move returns a cell inside the grid that is neither in
\* movesMade nor in knownMines, and returns None exactly when every grid cell
\* is in movesMade or in knownMines.
C8_RandomMove ==
    [][(pc = "idle" /\ last'.op = "make_random_move")
       => /\ last'.result # None =>
                 /\ InBounds(last'.result)
                 /\ last'.result \notin moves_made
                 /\ last'.result \notin mines
          /\ last'.result = None <=>
                 \A c \in Cells : c \in moves_made \/ c \in mines]_vars

C8_Witness ==
    /\ last.op = "make_random_move"
    /\ last.result = None
    /\ mines # {}
    /\ Cells \ moves_made # {}

\* C9: in every knowledge-base state and for every cell, mark_mine applied
\* twice gives the same knownMines, knownSafe and sentences as mark_mine
\* applied once, and likewise mark_safe.
C9_ConfirmIdempotent ==
    \A c \in Cells :
        /\ mark_mine(mark_mine(KB, c), c) = mark_mine(KB, c)
        /\ mark_safe(mark_safe(KB, c), c) = mark_safe(KB, c)

C9_Witness ==
    \E c \in Cells :
        /\ \E k \in DOMAIN knowledge : c \in knowledge[k].cells
        /\ \E k \in DOMAIN knowledge : c \notin knowledge[k].cells
        /\ mark_mine(KB, c) # KB
        /\ mark_safe(KB, c) # KB

\* C10 (as stated): when an add_knowledge call has returned, the number of
\* distinct (cells, count) pairs stored is at least the number stored when
\* the call was made.
C10_DistinctNeverShrinks ==
    (pc = "idle" /\ last.op = "add_knowledge")
        => Cardinality(DistinctPairs(knowledge)) >= last.before

\* C10 (amended): the list of stored sentences, duplicates counted, never
\* gets shorter: add_knowledge makes it one longer before the subset loop,
\* and every later step of the call leaves its length or adds one.
C10_ListNeverShrinks ==
    [][/\ Len(knowledge') >= Len(knowledge)
       /\ IsObserveStep => Len(knowledge') = Len(knowledge) + 1]_vars

C10_Witness ==
    /\ pc = "idle"
    /\ last.op = "add_knowledge"
    /\ Cardinality(DistinctPairs(knowledge)) < last.before
    /\ Len(knowledge) > last.before

\* C11 (as stated): on the 3 x 3 board whose only mine is (0, 0), when
\* add_knowledge((1, 1), 1) has returned, a sentence with cells {(0, 0)} and
\* count 1 is stored and (0, 0) is in knownMines.
C11_CornerMineFound ==
    (pc = "idle" /\ last.op = "add_knowledge" /\ last.cell = <<1, 1>>)
        => /\ \E k \in DOMAIN knowledge :
                  knowledge[k] = [cells |-> {<<0, 0>>}, count |-> 1]
           /\ <<0, 0>> \in mines

\* C11 (amended): add_knowledge((1, 1), 1) made in the initial empty state
\* stores the sentence of all eight neighbours with count 1 and leaves
\* knownMines empty; made when the seven other neighbours are in knownSafe it
\* puts (0, 0) in knownMines, and the sentence it appended is left as ({}, 0).
C11_CornerMineWhenOthersSafe ==
    [][(IsObserveStep /\ last'.cell = <<1, 1>>)
       => /\ calls = 0 =>
                 /\ mines' = {}
                 /\ knowledge' = <<[cells |-> Block(<<1, 1>>), count |-> 1]>>
          /\ (Block(<<1, 1>>) \ {<<0, 0>>}) \subseteq safes =>
                 /\ <<0, 0>> \in mines'
                 /\ knowledge'[Len(knowledge')] = [cells |-> {}, count |-> 0]]_vars

C11_Witness ==
    /\ pc = "idle"
    /\ last.op = "add_knowledge"
    /\ last.cell = <<1, 1>>
    /\ calls = 4
    /\ mines = {<<0, 0>>}
    /\ safes = Cells \ {<<0, 0>>}
    /\ knowledge[Len(knowledge)] = [cells |-> {}, count |-> 0]

\* the list kn with the sentences at positions a and b exchanged
Swapped(kn, a, b) ==
    [k \in DOMAIN kn |-> IF k = a THEN kn[b] ELSE IF k = b THEN kn[a] ELSE kn[k]]

\* C12: for every knowledge base between calls and every observation of the
\* board, add_knowledge run on a copy whose stored sentences are in another
\* order (two of them exchanged) ends with the same knownMines and the same
\* knownSafe.  (The subset loop changes neither set, so they are the sets
\* left by the extraction pass.)
C12_OrderIrrelevant ==
    pc = "idle" =>
        \A a, b \in DOMAIN knowledge :
            \A cell \in Cells \ board :
                LET r1 == Observed(KB, moves_made, cell, nearby_mines(cell))
                    r2 == Observed([KB EXCEPT !.knowledge = Swapped(knowledge, a, b)],
                                   moves_made, cell, nearby_mines(cell))
                IN  r1.mines = r2.mines /\ r1.safes = r2.safes

\* C13: whenever add_knowledge has returned, no stored sentence, built from
\* an observation or derived by the subset loop, contains a cell that is in
\* knownMines, knownSafe or movesMade.
C13_SentencesPurged ==
    pc = "idle" =>
        \A k \in DOMAIN knowledge :
            knowledge[k].cells \cap (mines \cup safes \cup moves_made) = {}

C13_Witness ==
    /\ pc = "idle"
    /\ safes \ moves_made # {}
    /\ \E k \in DerivedIndices : knowledge[k].cells # {}
    /\ \E k \in DOMAIN knowledge \ DerivedIndices : knowledge[k].cells # {}
    /\ \A k \in DOMAIN knowledge :
           knowledge[k].cells \cap (mines \cup safes \cup moves_made) = {}

\* the grid cells next to c: at most one row and one column away, c excluded
Adjacent(c) ==
    {n \in Cells : n # c
                   /\ n[1] - c[1] \in {-1, 0, 1}
                   /\ n[2] - c[2] \in {-1, 0, 1}}

\* C14: add_knowledge(cell, count) appends one sentence; as built, its cells
\* are the grid neighbours of cell that are not in knownMines, knownSafe or
\* movesMade, and its count is count minus the number of neighbours in
\* knownMines; it is appended also when it has no cells.  (After the
\* extraction pass of the same call the appended sentence is that sentence
\* less the cells the pass resolved, its count lowered by the mines among
\* them.)
C14_NeighbourSentence ==
    [][IsObserveStep =>
        LET cell  == last'.cell
            cells == Adjacent(cell) \ (mines \cup safes \cup moves_made)
            count == last'.count - Cardinality(Adjacent(cell) \cap mines)
            built == NewSentence(mark_safe(KB, cell), moves_made \cup {cell},
                                 cell, last'.count)
            n     == Len(knowledge')
        IN  /\ built = [cells |-> cells, count |-> count]
            /\ n = Len(knowledge) + 1
            /\ knowledge'[n].cells = cells \ (mines' \cup safes')
            /\ knowledge'[n].count = count - Cardinality(cells \cap mines')]_vars

C14_Witness ==
    /\ pc = "scan"
    /\ derived = 0
    /\ calls >= 2
    /\ Adjacent(last.cell) \cap mines # {}
    /\ Adjacent(last.cell) \cap (safes \ moves_made) # {}
    /\ knowledge[Len(knowledge)].count < last.count

\* C15: after board-consistent observations every stored sentence, built,
\* derived or changed in place, has 0 <= count <= number of its cells.
C15_CountInRange ==
    \A k \in DOMAIN knowledge :
        /\ 0 <= knowledge[k].count
        /\ knowledge[k].count <= Cardinality(knowledge[k].cells)

C15_Witness ==
    /\ \E k \in DerivedIndices : knowledge[k].cells # {} /\ knowledge[k].count > 0
    /\ \E k \in DOMAIN knowledge :
           /\ knowledge[k].count > 0
           /\ knowledge[k].count < Cardinality(knowledge[k].cells)

\* C16: under board-consistent observations, if the sentence add_knowledge
\* builds has adjusted count 0, all its cells are in knownSafe when the call
\* returns, and if its adjusted count equals its number of cells and is > 0,
\* all its cells are in knownMines when the call returns.  (The subset loop
\* changes neither set, so they are the sets left by the extraction pass.)
C16_TrivialObservationResolved ==
    [][IsObserveStep =>
        LET built == NewSentence(mark_safe(KB, last'.cell),
                                 moves_made \cup {last'.cell},
                                 last'.cell, last'.count)
        IN  /\ built.count = 0 => built.cells \subseteq safes'
            /\ (built.count = Cardinality(built.cells) /\ built.count > 0)
                   => built.cells \subseteq mines']_vars

C16_Witness ==
    /\ pc = "idle"
    /\ calls = 1
    /\ last.op = "add_knowledge"
    /\ last.count > 0
    /\ mines = Adjacent(last.cell)
    /\ knowledge = <<[cells |-> {}, count |-> 0]>>

\* one round of the subset rule on a set of sentences, all pairs at once
SubsetRound(S) ==
    S \cup {[cells |-> A.cells \ B.cells, count |-> A.count - B.count] :
                <<A, B>> \in {q \in S \X S :
                                 /\ q[2].cells \subseteq q[1].cells
                                 /\ q[1].count # 0
                                 /\ q[2].count # 0
                                 /\ q[1] # q[2]}}

\* the least set that contains S and is closed under the subset rule
RECURSIVE SubsetClosure(_)
SubsetClosure(S) ==
    IF SubsetRound(S) = S THEN S ELSE SubsetClosure(SubsetRound(S))

\* the sentences stored when the loop of the current (or last) call started
LoopStart == SubSeq(knowledge, 1, Len(knowledge) - derived)

\* C17: when the subset loop has stopped, the set of distinct sentences
\* stored is the same whatever the order in which the pairs were taken: it
\* is the closure of the sentences the loop started from.
C17_Confluent ==
    pc \in {"idle", "stopped"} =>
        DistinctPairs(knowledge) = SubsetClosure(DistinctPairs(LoopStart))

C17_Witness ==
    /\ pc = "stopped"
    /\ derived >= 2
    /\ knowledge[Len(knowledge)].cells # {}

\* every stored sentence is true of the board: its count is the number of
\* mines among its cells
SentencesTrue ==
    \A k \in DOMAIN knowledge :
        knowledge[k].count = Cardinality(knowledge[k].cells \cap board)

\* C18: under board-consistent observations every cell of mines is a mine of
\* the board, no cell of safes is a mine of the board, and make_safe_move
\* never returns a mine.
C18_Sound ==
    /\ \A c \in mines : is_mine(c)
    /\ \A c \in safes : ~is_mine(c)
    /\ (last.op = "make_safe_move" /\ last.result # None) => ~is_mine(last.result)

C18_Witness ==
    /\ calls >= 2
    /\ mines # {}
    /\ \E c \in safes : c \notin moves_made /\ Adjacent(c) \cap board # {}
    /\ last.op = "make_safe_move"
    /\ last.result # None
    /\ Adjacent(last.result) \cap board # {}

\* under board-consistent observations no call is a runaway call, so the
\* model follows every call to its end whatever the length of the list
NeverRunaway == ~Runaway(knowledge)

\* C19: under board-consistent observations, cells observed again included,
\* every add_knowledge call returns: the subset loop it enters reaches the
\* pass that appends nothing.
C19_BoardCallReturns ==
    (pc = "scan" /\ last.op = "add_knowledge")
        ~> (pc = "idle" /\ last.op = "add_knowledge")

C19_Witness ==
    /\ pc = "idle"
    /\ last.op = "add_knowledge"
    /\ derived >= 1
    /\ calls >= 3
    /\ Cardinality(moves_made) < calls
====
